---- MODULE Spec2Model ----
(***************************************************************************)
(* A model of the spectral-analysis core of wav-artist                     *)
(* (src/src/lib/audioProcessor.ts, class AudioProcessor).                  *)
(*                                                                         *)
(* Numbers.  JavaScript numbers are modelled in fixed point:               *)
(*   - samples and magnitudes in units of 1/Scale,                         *)
(*   - window and twiddle coefficients in units of 1/TrigScale,            *)
(*   - frequencies in units of 1/FreqScale Hz,                             *)
(*   - sub-bin offsets in units of 1/OffsetScale bin,                      *)
(*   - settings.harmonicThreshold in units of 1/ThresholdScale,            *)
(*   - inharmonicity in units of 1/InharmScale.                            *)
(* NaN is a value of its own that every arithmetic operation propagates    *)
(* and that every comparison answers false on, as IEEE-754 does.           *)
(* Typed arrays are functions on 0..n-1; a read outside the domain (or at  *)
(* a fractional index) gives undefined, which arithmetic turns into NaN,   *)
(* and a write outside the domain is dropped.                              *)
(***************************************************************************)
EXTENDS Integers, Sequences, FiniteSets, TLC

\* ------------------------------------------------------------ bounds
\* The fixed-point units.
Scale == 100
TrigScale == 10000
CoefScale == 100000
OffsetScale == 1000
FreqScale == 10
ThresholdScale == 100
InharmScale == 10000

\* ------------------------------------------------------------ numbers
\* IEEE-754 NaN: the product of a sample with an undefined window
\* coefficient, 0/0, Math.abs(undefined).
NaN == -2000000000
\* IEEE-754 +Infinity and -Infinity: x/0 for x # 0.
Infinity == 2000000000
NegInfinity == -2000000001

IsNaN(x) == x = NaN
IsFinite(x) == x # NaN /\ x # Infinity /\ x # NegInfinity

Abs(x) == IF x < 0 THEN -x ELSE x
\* a / b rounded to the nearest integer, b > 0.
RoundDiv(a, b) == IF a >= 0 THEN (2 * a + b) \div (2 * b)
                  ELSE -((2 * (-a) + b) \div (2 * b))

\* Float addition, subtraction, and the comparisons > < >= on numbers of one unit.
Add(a, b) == IF IsNaN(a) \/ IsNaN(b) THEN NaN ELSE a + b
Sub(a, b) == IF IsNaN(a) \/ IsNaN(b) THEN NaN ELSE a - b
Gt(a, b) == ~IsNaN(a) /\ ~IsNaN(b) /\ a > b
Lt(a, b) == ~IsNaN(a) /\ ~IsNaN(b) /\ a < b
Ge(a, b) == ~IsNaN(a) /\ ~IsNaN(b) /\ a >= b
\* Math.abs
MathAbs(a) == IF IsNaN(a) THEN NaN ELSE Abs(a)
\* Math.max(a, b): NaN if either is NaN.
MathMax(a, b) == IF IsNaN(a) \/ IsNaN(b) THEN NaN ELSE IF a >= b THEN a ELSE b
\* The product of a value (unit 1/Scale) with a coefficient (unit 1/TrigScale).
MulCoef(x, c) == IF IsNaN(x) \/ IsNaN(c) THEN NaN ELSE RoundDiv(x * c, TrigScale)

\* Math.sqrt on a non-negative integer: the integer square root (floor).
RECURSIVE SqrtIter(_, _, _)
SqrtIter(n, lo, hi) ==
    IF lo >= hi THEN lo
    ELSE LET mid == (lo + hi + 1) \div 2
         IN IF mid * mid <= n THEN SqrtIter(n, mid, hi) ELSE SqrtIter(n, lo, mid - 1)
MathSqrt(n) == IF IsNaN(n) \/ n < 0 THEN NaN ELSE SqrtIter(n, 0, IF n < 46340 THEN n ELSE 46340)

\* ------------------------------------------------------------ arrays
\* The length of a typed array.
Length(a) == Cardinality(DOMAIN a)
\* a[i] as an operand of arithmetic: undefined (outside the array) becomes NaN.
\* The index is given doubled, so that a fractional index k + 1/2 can be asked for.
ReadHalf(a, i2) == IF i2 % 2 = 0 /\ (i2 \div 2) \in DOMAIN a THEN a[i2 \div 2] ELSE NaN
Read(a, i) == ReadHalf(a, 2 * i)
\* new Float32Array(n): n zeros.
Zeros(n) == [i \in 0 .. n - 1 |-> 0]

\* ------------------------------------------------------------ Math.cos, Math.sin
\* cos(2*pi*num/den) in units of 1/TrigScale, by reduction to [0, pi/2] and the
\* Taylor polynomial of degree 10; NaN for den = 0 (0/0).
HalfPi == (31416 * TrigScale) \div 20000
CosFirstQuadrant(x) ==
    LET x2 == (x * x) \div TrigScale
        h5 == TrigScale - x2 \div 90
        h4 == TrigScale - ((x2 * h5) \div TrigScale) \div 56
        h3 == TrigScale - ((x2 * h4) \div TrigScale) \div 30
        h2 == TrigScale - ((x2 * h3) \div TrigScale) \div 12
    IN  TrigScale - ((x2 * h2) \div TrigScale) \div 2
CosTurn(num, den) ==
    IF den = 0 THEN NaN
    ELSE LET a0 == (4 * num) % (4 * den)
             a1 == IF a0 > 2 * den THEN 4 * den - a0 ELSE a0
             neg == a1 > den
             a2 == IF neg THEN 2 * den - a1 ELSE a1
             c == IF a2 = den THEN 0 ELSE CosFirstQuadrant(RoundDiv(HalfPi * a2, den))
         IN  IF neg THEN -c ELSE c
SinTurn(num, den) == IF den = 0 THEN NaN ELSE CosTurn(4 * num - den, 4 * den)

\* ------------------------------------------------------------ createWindow
\* The Blackman-Harris coefficients, in units of 1/CoefScale.
BH_a0 == 35875
BH_a1 == 48829
BH_a2 == 14128
BH_a3 == 1168
WindowCoef(i, size) ==
    IF size = 1 THEN NaN
    ELSE RoundDiv(BH_a0 * TrigScale
                  - BH_a1 * CosTurn(i, size - 1)
                  + BH_a2 * CosTurn(2 * i, size - 1)
                  - BH_a3 * CosTurn(3 * i, size - 1), CoefScale)
createWindow(size) == [i \in 0 .. size - 1 |-> WindowCoef(i, size)]

\* ------------------------------------------------------------ fft
\* Bitwise and / xor of non-negative integers.
RECURSIVE BitAnd(_, _)
BitAnd(a, b) == IF a = 0 \/ b = 0 THEN 0
                ELSE 2 * BitAnd(a \div 2, b \div 2) + (IF a % 2 = 1 /\ b % 2 = 1 THEN 1 ELSE 0)
RECURSIVE BitXor(_, _)
BitXor(a, b) == IF a = 0 THEN b ELSE IF b = 0 THEN a
                ELSE 2 * BitXor(a \div 2, b \div 2) + (IF a % 2 # b % 2 THEN 1 ELSE 0)

\* The counter without the carry loop: j ^= bit alone.
NextReversedMutNoCarry(j, bit) == BitXor(j, bit)
\* while (j & bit) { j ^= bit; bit >>= 1; }  j ^= bit;
RECURSIVE NextReversed(_, _)
NextReversed(j, bit) ==
    IF BitAnd(j, bit) # 0 THEN NextReversed(BitXor(j, bit), bit \div 2)
    ELSE BitXor(j, bit)

\* [a[i], a[j]] = [a[j], a[i]]: both reads happen first; the write at an index
\* outside the array is dropped, the read there gives undefined, stored as NaN.
Swap(a, i, j) ==
    [k \in DOMAIN a |-> IF k = i THEN Read(a, j) ELSE IF k = j THEN Read(a, i) ELSE a[k]]

\* One pass of the bit-reversal loop at index i; c.j is the reversed counter.
BitReversalStep(c, i, N) ==
    LET j2 == NextReversed(c.j, N \div 2)
    IN  IF i < j2
        THEN [real |-> Swap(c.real, i, j2), imag |-> Swap(c.imag, i, j2), j |-> j2]
        ELSE [real |-> c.real, imag |-> c.imag, j |-> j2]

\* The passes for i = lo .. hi, in order (the range is halved only to keep the
\* evaluation shallow; the passes are applied one after the other).
RECURSIVE BitReversalRange(_, _, _, _)
BitReversalRange(c, lo, hi, N) ==
    IF lo > hi THEN c
    ELSE IF lo = hi THEN BitReversalStep(c, lo, N)
    ELSE LET mid == (lo + hi) \div 2
             left == BitReversalRange(c, lo, mid, N)
         \* (the test evaluates left before the second half is entered; it is always true)
         IN  IF left.j >= 0 THEN BitReversalRange(left, mid + 1, hi, N) ELSE left

\* for (let i = 1; i < N; i++), from j = 0
BitReversal(c, N) ==
    LET done == BitReversalRange([real |-> c.real, imag |-> c.imag, j |-> 0], 1, N - 1, N)
    IN  [real |-> done.real, imag |-> done.imag]

\* One butterfly stage of span len.  The butterflies of a stage touch disjoint
\* pairs (p, p + len/2), so the stage is computed position by position.
ButterflyStage(c, len, N) ==
    LET half == len \div 2
        U(p, a) == IF (p % len) < half THEN Read(a, p) ELSE Read(a, p - half)
        X(p, a) == IF (p % len) < half THEN Read(a, p + half) ELSE Read(a, p)
        J(p) == IF (p % len) < half THEN p % len ELSE (p % len) - half
        wr(p) == CosTurn(J(p), len)
        wi(p) == SinTurn(J(p), len)
        tr(p) == Sub(MulCoef(X(p, c.real), wr(p)), MulCoef(X(p, c.imag), wi(p)))
        ti(p) == Add(MulCoef(X(p, c.real), wi(p)), MulCoef(X(p, c.imag), wr(p)))
    IN  [real |-> [p \in 0 .. N - 1 |->
                     IF (p % len) < half THEN Add(U(p, c.real), tr(p)) ELSE Sub(U(p, c.real), tr(p))],
         imag |-> [p \in 0 .. N - 1 |->
                     IF (p % len) < half THEN Add(U(p, c.imag), ti(p)) ELSE Sub(U(p, c.imag), ti(p))]]

\* for (let len = 2; len <= N; len *= 2)
RECURSIVE Butterflies(_, _, _)
Butterflies(c, len, N) ==
    IF len > N THEN c
    ELSE LET c2 == ButterflyStage(c, len, N)
         IN  IF DOMAIN c2.real = DOMAIN c.real THEN Butterflies(c2, 2 * len, N) ELSE c2

fft(signal) ==
    LET N == Length(signal)
        copied == [real |-> signal, imag |-> Zeros(N)]
    IN  Butterflies(BitReversal(copied, N), 2, N)

\* ------------------------------------------------------------ getMagnitudeSpectrum
\* new Float32Array(real.length / 2): a fractional length is truncated.
Magnitude(re, im) ==
    IF IsNaN(re) \/ IsNaN(im) THEN NaN ELSE MathSqrt(re * re + im * im)
getMagnitudeSpectrum(real, imag) ==
    [i \in 0 .. (Length(real) \div 2) - 1 |-> Magnitude(real[i], imag[i])]

\* a / b rounded to the nearest integer, for b of either sign, b # 0.
SignedDiv(a, b) == IF b > 0 THEN RoundDiv(a, b) ELSE RoundDiv(-a, -b)
Min(a, b) == IF a <= b THEN a ELSE b
Max(a, b) == IF a >= b THEN a ELSE b

\* ------------------------------------------------------------ findPeaks
\* Math.max(...spectrum): -Infinity for no arguments, NaN if any argument is NaN.
\* (Ranges are halved only to keep the evaluation shallow.)
RECURSIVE MaxRange(_, _, _)
MaxRange(spectrum, lo, hi) ==
    IF lo > hi THEN NegInfinity
    ELSE IF lo = hi THEN spectrum[lo]
    ELSE LET mid == (lo + hi) \div 2
         IN  MathMax(MaxRange(spectrum, lo, mid), MaxRange(spectrum, mid + 1, hi))
MathMaxOf(spectrum) == MaxRange(spectrum, 0, Length(spectrum) - 1)

\* magnitude > threshold, where threshold = max * settings.harmonicThreshold.
AboveThreshold(magnitude, max, harmonicThreshold) ==
    /\ ~IsNaN(magnitude) /\ ~IsNaN(max)
    /\ \/ max = NegInfinity
       \/ magnitude * ThresholdScale > max * harmonicThreshold

\* The peak test with >= in place of every >.
IsPeakMutGe(spectrum, i, max, harmonicThreshold) ==
    /\ ~IsNaN(spectrum[i]) /\ ~IsNaN(max)
    /\ spectrum[i] * ThresholdScale >= max * harmonicThreshold
    /\ Ge(spectrum[i], spectrum[i - 1])
    /\ Ge(spectrum[i], spectrum[i + 1])
    /\ Ge(spectrum[i], spectrum[i - 2])
    /\ Ge(spectrum[i], spectrum[i + 2])
\* The peak test against the two bins below only.
IsPeakMutBelowOnly(spectrum, i, max, harmonicThreshold) ==
    /\ AboveThreshold(spectrum[i], max, harmonicThreshold)
    /\ Gt(spectrum[i], spectrum[i - 1])
    /\ Gt(spectrum[i], spectrum[i - 2])
\* The peak test against the two nearest neighbours only.
IsPeakMutNearest(spectrum, i, max, harmonicThreshold) ==
    /\ ~IsNaN(spectrum[i]) /\ ~IsNaN(max)
    /\ spectrum[i] * ThresholdScale > max * harmonicThreshold
    /\ Gt(spectrum[i], spectrum[i - 1])
    /\ Gt(spectrum[i], spectrum[i + 1])
\* The peak test of bin i (2 <= i < length - 2).
IsPeak(spectrum, i, max, harmonicThreshold) ==
    /\ AboveThreshold(spectrum[i], max, harmonicThreshold)
    /\ Gt(spectrum[i], spectrum[i - 1])
    /\ Gt(spectrum[i], spectrum[i + 1])
    /\ Gt(spectrum[i], spectrum[i - 2])
    /\ Gt(spectrum[i], spectrum[i + 2])

\* Quadratic interpolation: a = (y1 - 2*y2 + y3)/2, b = (y3 - y1)/2,
\* peakOffset = clamp(-b / (2a), -1, 1) if a # 0, else 0.  twoA = 2a, twoB = 2b.
PeakOffset(y1, y2, y3) ==
    LET twoA == y1 - 2 * y2 + y3
        twoB == y3 - y1
    IN  IF twoA # 0
        THEN Max(-OffsetScale, Min(OffsetScale, SignedDiv(-twoB * OffsetScale, 2 * twoA)))
        ELSE 0

\* position * freqResolution, freqResolution = sampleRate / (length * 2), for a
\* position given in units of 1/OffsetScale bin.
\* For a spectrum of no bins freqResolution is sampleRate / 0 = Infinity, and the
\* product is Infinity, -Infinity or NaN by the sign of position.
BinToFrequency(position, length, sampleRate) ==
    IF length = 0
    THEN (IF position > 0 THEN Infinity ELSE IF position < 0 THEN NegInfinity ELSE NaN)
    ELSE RoundDiv(position * sampleRate * FreqScale, 2 * length * OffsetScale)

\* The range test left out.
FreqInRangeMutNoFilter(frequency, settings) == TRUE
\* The range test without its upper end.
FreqInRangeMutNoUpper(frequency, settings) == Ge(frequency, settings.minFreq * FreqScale)
\* frequency >= settings.minFreq && frequency <= settings.maxFreq
FreqInRange(frequency, settings) ==
    /\ Ge(frequency, settings.minFreq * FreqScale)
    /\ Ge(settings.maxFreq * FreqScale, frequency)

\* The -3 dB walk: the first j in 1..19 with i - j >= 0 and
\* spectrum[i - j] < magnitude * 0.707; j bin widths, or one bin width if none.
BandwidthSteps == 20
\* The walk taken to j = 20.
BandwidthBinsMutTwenty(spectrum, i) ==
    LET below == {j \in 1 .. BandwidthSteps :
                    i - j >= 0 /\ Lt(spectrum[i - j] * 1000, spectrum[i] * 707)}
    IN  IF below = {} THEN 1 ELSE CHOOSE j \in below : \A k \in below : j <= k
BandwidthBins(spectrum, i) ==
    LET below == {j \in 1 .. BandwidthSteps - 1 :
                    i - j >= 0 /\ Lt(spectrum[i - j] * 1000, spectrum[i] * 707)}
    IN  IF below = {} THEN 1 ELSE CHOOSE j \in below : \A k \in below : j <= k

\* The feature pushed for bin i.  bin is a ghost field: the bin the peak was found at.
Feature(spectrum, i, sampleRate) ==
    LET len == Length(spectrum)
        offset == PeakOffset(spectrum[i - 1], spectrum[i], spectrum[i + 1])
    IN  [frequency |-> BinToFrequency(i * OffsetScale + offset, len, sampleRate),
         magnitude |-> spectrum[i],
         phase |-> 0,
         bandwidth |-> BinToFrequency(BandwidthBins(spectrum, i) * OffsetScale, len, sampleRate),
         bin |-> i]

\* The features pushed by the passes i = lo .. hi of the loop, in bin order.
RECURSIVE PeaksInRange(_, _, _, _, _, _)
PeaksInRange(spectrum, lo, hi, max, sampleRate, settings) ==
    IF lo > hi THEN << >>
    ELSE IF lo = hi
    THEN (IF IsPeak(spectrum, lo, max, settings.harmonicThreshold)
             /\ FreqInRange(Feature(spectrum, lo, sampleRate).frequency, settings)
          THEN << Feature(spectrum, lo, sampleRate) >>
          ELSE << >>)
    ELSE LET mid == (lo + hi) \div 2
         IN  PeaksInRange(spectrum, lo, mid, max, sampleRate, settings)
             \o PeaksInRange(spectrum, mid + 1, hi, max, sampleRate, settings)

\* Array.prototype.sort with (a, b) => b[field] - a[field]: the stable sort,
\* greatest first.  The element at index k goes to the position after those of
\* a greater key and those of an equal key that come before it.
SortedPosition(list, k, field) ==
    Cardinality({j \in 1 .. Len(list) :
                   \/ list[j][field] > list[k][field]
                   \/ (list[j][field] = list[k][field] /\ j < k)}) + 1
SortDescending(list, field) ==
    [p \in 1 .. Len(list) |->
       list[CHOOSE k \in 1 .. Len(list) : SortedPosition(list, k, field) = p]]

\* The features left in bin order.
SortByMagnitudeMutNoSort(features) == features
\* features.sort((a, b) => b.magnitude - a.magnitude)
SortByMagnitude(features) == SortDescending(features, "magnitude")

findPeaks(spectrum, sampleRate, settings) ==
    SortByMagnitude(PeaksInRange(spectrum, 2, Length(spectrum) - 3, MathMaxOf(spectrum),
                                 sampleRate, settings))

\* ------------------------------------------------------------ detectHarmonics
\* Lists are sequences: features[1] is the source's features[0].
MaxCandidates == 50
MaxHarmonic == 20
ToleranceNum == 2
ToleranceDen == 100
MinSeriesLength == 3

\* error = |feature.frequency - targetFreq| / targetFreq;  error < 0.02
WithinTolerance(frequency, targetFreq) ==
    Abs(frequency - targetFreq) * ToleranceDen < ToleranceNum * targetFreq

\* The inner loop without the test of processed.
BestMatchMutIgnoreClaimed(features, i, targetFreq, processed) ==
    LET candidates == {j \in i + 1 .. Len(features) :
                         WithinTolerance(features[j].frequency, targetFreq)}
        error(j) == Abs(features[j].frequency - targetFreq)
    IN  IF candidates = {} THEN 0
        ELSE CHOOSE j \in candidates :
               \A k \in candidates : error(j) < error(k) \/ (error(j) = error(k) /\ j <= k)
\* The inner loop taking the first feature within the tolerance.
BestMatchMutFirst(features, i, targetFreq, processed) ==
    LET candidates == {j \in i + 1 .. Len(features) :
                         j \notin processed /\ WithinTolerance(features[j].frequency, targetFreq)}
    IN  IF candidates = {} THEN 0
        ELSE CHOOSE j \in candidates : \A k \in candidates : j <= k
\* The inner loop over j = i+1 .. length-1: the index of the best match, 0 if none.
\* A later feature replaces the best one only with a strictly smaller error, so the
\* best match is the one of least error and, among those, of least index.  Errors
\* of one target are compared by their numerators.
BestMatch(features, i, targetFreq, processed) ==
    LET candidates == {j \in i + 1 .. Len(features) :
                         j \notin processed /\ WithinTolerance(features[j].frequency, targetFreq)}
        error(j) == Abs(features[j].frequency - targetFreq)
    IN  IF candidates = {} THEN 0
        ELSE CHOOSE j \in candidates :
               \A k \in candidates : error(j) < error(k) \/ (error(j) = error(k) /\ j <= k)

\* One pass of the loop over harmonicNum for the candidate at index i.
\* st = [members: the indices pushed to series, orders: the harmonic number each
\* was matched for (1 for the fundamental), processed, before: processed as it
\* was when the candidate was taken up].
CollectStep(features, i, harmonicNum, st) ==
    LET best == BestMatch(features, i, features[i].frequency * harmonicNum, st.processed)
    IN  IF best # 0
        THEN [st EXCEPT !.members = Append(st.members, best),
                        !.orders = Append(st.orders, harmonicNum),
                        !.processed = st.processed \cup {best}]
        ELSE st

\* The passes harmonicNum = lo .. hi, in order.
RECURSIVE CollectRange(_, _, _, _, _)
CollectRange(features, i, lo, hi, st) ==
    IF lo > hi THEN st
    ELSE IF lo = hi THEN CollectStep(features, i, lo, st)
    ELSE LET mid == (lo + hi) \div 2
             left == CollectRange(features, i, lo, mid, st)
         \* (the test evaluates left before the second half is entered; it is always true)
         IN  IF Len(left.members) > 0 THEN CollectRange(features, i, mid + 1, hi, left) ELSE left

\* The loop started at harmonicNum = 3.
CollectSeriesMutFromThree(features, i, processed) ==
    CollectRange(features, i, 3, MaxHarmonic,
                 [members |-> << i >>, orders |-> << 1 >>, processed |-> processed \cup {i},
                  before |-> processed])
\* for (let harmonicNum = 2; harmonicNum <= 20; harmonicNum++)
CollectSeries(features, i, processed) ==
    CollectRange(features, i, 2, MaxHarmonic,
                 [members |-> << i >>, orders |-> << 1 >>, processed |-> processed \cup {i},
                  before |-> processed])

\* inharmonicity: the mean over k = 1 .. length-1 of |actual - expected| / expected,
\* expected = fundamental.frequency * (k + 1).
Deviation(series, p) ==
    LET expected == series[1].frequency * p
    IN  IF expected = 0 THEN NaN
        ELSE RoundDiv(Abs(series[p].frequency - expected) * InharmScale, expected)
RECURSIVE SumSeq(_, _, _)
SumSeq(terms, lo, hi) ==
    IF lo > hi THEN 0
    ELSE IF lo = hi THEN terms[lo]
    ELSE LET mid == (lo + hi) \div 2
         IN  Add(SumSeq(terms, lo, mid), SumSeq(terms, mid + 1, hi))
Inharmonicity(series) ==
    LET sum == SumSeq([p \in 1 .. Len(series) |-> IF p = 1 THEN 0 ELSE Deviation(series, p)],
                      1, Len(series))
    IN  IF IsNaN(sum) THEN NaN ELSE RoundDiv(sum, Len(series) - 1)

\* series.reduce((sum, s) => sum + s.magnitude, 0)
SumMagnitudes(series) ==
    SumSeq([p \in 1 .. Len(series) |-> series[p].magnitude], 1, Len(series))

\* The record pushed for a kept series.  members, orders and claimedBefore (the
\* indices claimed before the series' candidate was taken up) are ghost fields.
HarmonicSeries(features, st) ==
    LET series == [k \in 1 .. Len(st.members) |-> features[st.members[k]]]
    IN  [fundamental |-> series[1].frequency,
         overtones |-> series,
         strength |-> SumMagnitudes(series),
         inharmonicity |-> Inharmonicity(series),
         members |-> st.members,
         orders |-> st.orders,
         claimedBefore |-> st.before]

\* One pass of the outer loop, for the candidate at index i.
\* g = [processed, harmonics].
GroupStep(features, i, g) ==
    IF i \in g.processed THEN g
    ELSE LET st == CollectSeries(features, i, g.processed)
         IN  [processed |-> st.processed,
              harmonics |-> IF Len(st.members) >= MinSeriesLength
                            THEN Append(g.harmonics, HarmonicSeries(features, st))
                            ELSE g.harmonics]

\* The passes i = lo .. hi, in order.
RECURSIVE GroupRange(_, _, _, _)
GroupRange(features, lo, hi, g) ==
    IF lo > hi THEN g
    ELSE IF lo = hi THEN GroupStep(features, lo, g)
    ELSE LET mid == (lo + hi) \div 2
             left == GroupRange(features, lo, mid, g)
         \* (the test evaluates left before the second half is entered; it is always true)
         IN  IF Len(left.harmonics) >= 0 THEN GroupRange(features, mid + 1, hi, left) ELSE left

\* for (let i = 0; i < Math.min(features.length, 50); i++)
GroupSeries(features) ==
    GroupRange(features, 1, Min(Len(features), MaxCandidates),
               [processed |-> {}, harmonics |-> << >>]).harmonics

\* The series left in the order they were found.
SortByStrengthMutNoSort(harmonics) == harmonics
\* harmonics.sort((a, b) => b.strength - a.strength)
SortByStrength(harmonics) == SortDescending(harmonics, "strength")

detectHarmonics(features) == SortByStrength(GroupSeries(features))

\* ------------------------------------------------------------ spectral statistics
\* The sum of the entries of an array, as a loop accumulates them.
SumOf(terms) == SumSeq(terms, 0, Length(terms) - 1)

\* weightedSum / magnitudeSum if magnitudeSum > 0, else 0; the weighted sum is
\* taken over bin numbers and scaled by freqResolution at the end.
calculateSpectralCentroid(spectrum, sampleRate) ==
    LET weightedSum == SumOf([i \in DOMAIN spectrum |->
                                IF IsNaN(spectrum[i]) THEN NaN ELSE i * spectrum[i]])
        magnitudeSum == SumOf(spectrum)
    IN  IF Gt(magnitudeSum, 0)
        THEN BinToFrequency(RoundDiv(weightedSum * OffsetScale, magnitudeSum),
                            Length(spectrum), sampleRate)
        ELSE 0

\* The first bin whose cumulative energy reaches 85% of the total, or the last
\* bin if none does (every comparison with NaN fails).
RolloffNum == 85
RolloffDen == 100
RECURSIVE RolloffRange(_, _, _, _, _)
RolloffRange(energy, lo, hi, before, totalEnergy) ==
    \* the first i in lo .. hi at which the loop returns, -1 if none; before is
    \* cumulativeEnergy on entry to pass lo
    IF lo > hi THEN -1
    ELSE IF lo = hi
    THEN (IF /\ ~IsNaN(Add(before, energy[lo])) /\ ~IsNaN(totalEnergy)
             /\ Add(before, energy[lo]) * RolloffDen >= totalEnergy * RolloffNum
          THEN lo ELSE -1)
    ELSE LET mid == (lo + hi) \div 2
             left == RolloffRange(energy, lo, mid, before, totalEnergy)
         IN  IF left >= 0 THEN left
             ELSE RolloffRange(energy, mid + 1, hi,
                               Add(before, SumSeq(energy, lo, mid)), totalEnergy)
RolloffBin(spectrum, totalEnergy) ==
    LET energy == [i \in DOMAIN spectrum |->
                     IF IsNaN(spectrum[i]) THEN NaN ELSE spectrum[i] * spectrum[i]]
        first == RolloffRange(energy, 0, Length(spectrum) - 1, 0, totalEnergy)
    IN  IF first >= 0 THEN first ELSE Length(spectrum) - 1
calculateSpectralRolloff(spectrum, sampleRate) ==
    LET totalEnergy == SumOf([i \in DOMAIN spectrum |->
                                IF IsNaN(spectrum[i]) THEN NaN ELSE spectrum[i] * spectrum[i]])
    IN  BinToFrequency(RolloffBin(spectrum, totalEnergy) * OffsetScale,
                       Length(spectrum), sampleRate)

\* ------------------------------------------------------------ calculateEnvelope
\* windowSize = Math.floor(sampleRate * 0.01)
EnvelopeWindowDen == 100
EnvelopeWindow(sampleRate) == sampleRate \div EnvelopeWindowDen

\* for (let j = start; j < end; j++) { sum += Math.abs(audioData[j]); count++; }
\* with the positions doubled: start = max(0, i - windowSize/2) is fractional
\* when windowSize is odd and i >= windowSize/2.
RECURSIVE EnvelopeSum(_, _, _)
EnvelopeSum(audioData, j2, end2) ==
    IF j2 >= end2 THEN [sum |-> 0, count |-> 0]
    ELSE LET rest == EnvelopeSum(audioData, j2 + 2, end2)
         IN  [sum |-> Add(MathAbs(ReadHalf(audioData, j2)), rest.sum), count |-> rest.count + 1]

EnvelopeAt(audioData, i, windowSize) ==
    LET start2 == Max(0, 2 * i - windowSize)
        end2 == Min(2 * Length(audioData), 2 * i + windowSize)
        acc == EnvelopeSum(audioData, start2, end2)
    IN  IF acc.count > 0
        THEN (IF IsNaN(acc.sum) THEN NaN ELSE RoundDiv(acc.sum, acc.count))
        ELSE 0

calculateEnvelope(audioData, sampleRate) ==
    [i \in DOMAIN audioData |-> EnvelopeAt(audioData, i, EnvelopeWindow(sampleRate))]

\* ------------------------------------------------------------ generateSpectrogram
\* Math.floor(a / b) for integers: a/0 is +-Infinity, 0/0 is NaN.
FloorOfQuotient(a, b) ==
    IF b = 0 THEN (IF a > 0 THEN Infinity ELSE IF a < 0 THEN NegInfinity ELSE NaN)
    ELSE IF b > 0 THEN a \div b
    ELSE (-a) \div (-b)
PlusOne(x) == IF IsFinite(x) THEN x + 1 ELSE x

\* The bound of the frame loop without its + 1.
NumFramesMutNoLast(length, settings) ==
    FloorOfQuotient(length - settings.windowSize, settings.hopSize)
\* numFrames = Math.floor((audioData.length - windowSize) / hopSize) + 1
NumFrames(length, settings) ==
    PlusOne(FloorOfQuotient(length - settings.windowSize, settings.hopSize))

\* 1000 * log10(m) for an integer m >= 1: the decade, plus a linear interpolation
\* of log10 between the integers 1..10 within the decade.
Log10Table == << 0, 301, 477, 602, 699, 778, 845, 903, 954, 1000 >>
RECURSIVE Log10Milli(_)
Log10Milli(m) ==
    IF m >= 10 * 10
    THEN 1000 + Log10Milli(m \div 10)
    ELSE IF m >= 10
    THEN LET d == m \div 10
             r == m % 10
         IN  1000 + Log10Table[d] + ((Log10Table[d + 1] - Log10Table[d]) * r) \div 10
    ELSE Log10Table[m]

\* Math.max(0, (20 * Math.log10(Math.max(magnitude, 1e-10)) + 100) / 100),
\* in units of 1/1000; a magnitude of 0 gives -200 dB, hence 0.
DecibelUnits == 1000
NormalizedDecibel(magnitude) ==
    IF IsNaN(magnitude) THEN NaN
    ELSE IF magnitude <= 0 THEN 0
    ELSE Max(0, DecibelUnits + (Log10Milli(magnitude) - Log10Milli(Scale)) \div 5)

\* The frame at index frame: window, FFT, magnitude, dB.
SpectrogramFrame(audioData, frame, settings, windowFunction) ==
    LET start == frame * settings.hopSize
        windowedFrame == [i \in 0 .. settings.windowSize - 1 |->
                            IF start + i < Length(audioData)
                            THEN MulCoef(Read(audioData, start + i), Read(windowFunction, i))
                            ELSE 0]
        transformed == fft(windowedFrame)
        magnitude == getMagnitudeSpectrum(transformed.real, transformed.imag)
    IN  [i \in 0 .. (settings.windowSize \div 2) - 1 |-> NormalizedDecibel(Read(magnitude, i))]

\* ------------------------------------------------------------ analyze: fundamental
\* fundamentalFreq: number | null
Null == -2000000002

\* for (const feature of spectralFeatures.slice().reverse())
\*   if (feature.frequency >= this.settings.minFreq) fundamentalFreq = feature.frequency;
\* Every feature that passes the test overwrites the value: the last one visited,
\* walking the list from its end to its start, stays.
RECURSIVE ScanReversed(_, _, _, _)
ScanReversed(features, k, settings, current) ==
    IF k < 1 THEN current
    ELSE ScanReversed(features, k - 1, settings,
                      IF Ge(features[k].frequency, settings.minFreq * FreqScale)
                      THEN features[k].frequency
                      ELSE current)

SelectFundamental(features, series, settings) ==
    IF Len(series) > 0 THEN series[1].fundamental
    ELSE IF Len(features) > 0 THEN ScanReversed(features, Len(features), settings, Null)
    ELSE Null

\* ------------------------------------------------------------ inputs
\* The audio inputs: sums of sinusoids of whole period SignalPeriod, given as
\* lists of [bin, amp] (amp in units of 1/Scale, the sum within [-1, 1]).
SignalPeriod == 32
Tone(c, n) == RoundDiv(c.amp * SinTurn(c.bin * n, SignalPeriod), TrigScale)
RECURSIVE SampleOf(_, _)
SampleOf(components, n) ==
    IF components = << >> THEN 0 ELSE Tone(Head(components), n) + SampleOf(Tail(components), n)
Signal(components, length) == [n \in 0 .. length - 1 |-> SampleOf(components, n)]

Silence == << >>
Sine == << [bin |-> 4, amp |-> Scale] >>
TwoTone == << [bin |-> 4, amp |-> (3 * Scale) \div 10], [bin |-> 10, amp |-> (6 * Scale) \div 10] >>
Harmonic == << [bin |-> 4, amp |-> (5 * Scale) \div 10], [bin |-> 8, amp |-> (3 * Scale) \div 10],
               [bin |-> 12, amp |-> (2 * Scale) \div 10] >>
SignalKinds == {Silence, Sine, TwoTone, Harmonic}
SignalLengths == {0, 16, 40}
SampleRates == {300, 400}

\* An AudioBuffer: mono, or stereo with a silent right channel.
AudioBuffers ==
    { [sampleRate |-> r, numberOfChannels |-> c,
       channels |-> IF c = 1 THEN << Signal(k, n) >> ELSE << Signal(k, n), Signal(Silence, n) >>] :
      r \in SampleRates, c \in {1, 2}, k \in SignalKinds, n \in SignalLengths }

\* The settings records: the shape of the application's defaults (fftSize four
\* times windowSize, hopSize a quarter of it) is [fftSize 32, windowSize 8,
\* hopSize 2]; sizes that are no power of two, sizes above the sample count and
\* a hopSize of 0 are among them.  Odd sizes are not.
FftSizes == {8, 12, 32}
WindowSizes == {8, 12, 32}
HopSizes == {0, 2, 8}
MinFreqs == {20, 60}
SettingsRecords ==
    { [fftSize |-> f, windowSize |-> w, hopSize |-> h, minFreq |-> lo, maxFreq |-> 20000,
       harmonicThreshold |-> ThresholdScale \div 10, noiseFloor |-> -60] :
      f \in FftSizes, w \in WindowSizes, h \in HopSizes, lo \in MinFreqs }

\* analyze() is called at most MaxCalls times.
MaxCalls == 2

\* The frame loop of generateSpectrogram is followed for at most MaxFrames
\* frames when its bound is Infinity.
MaxFrames == 3

\* ------------------------------------------------------------ state
VARIABLES
    audioBuffer,       \* this.audioBuffer
    settings,          \* this.settings
    windowFunction,    \* this.windowFunction
    pc,                \* the position in analyze()
    audioData,         \* the mono signal
    rmsLevel, peak,
    magnitude,         \* the magnitude spectrum of the center frame
    spectralFeatures, harmonics,
    spectralCentroid, spectralRolloff,
    fundamentalFreq,
    envelope,
    numFrames,         \* the frame loop's bound
    spectrogram,
    result,            \* the AnalysisResult returned, Null before
    calls,             \* the number of analyze() calls that have returned
    transform,         \* the call of fft() followed step by step, idle if none is
    ui                 \* the state, refs and pending callbacks of the AudioAnalyzer component

vars == << audioBuffer, settings, windowFunction, pc, audioData, rmsLevel, peak, magnitude,
           spectralFeatures, harmonics, spectralCentroid, spectralRolloff, fundamentalFreq,
           envelope, numFrames, spectrogram, result, calls, transform, ui >>

\* The AudioAnalyzer component as mounted (lines 305-322): no file, no buffer,
\* no result, nothing uploaded and no source node made.  Files and source nodes
\* are numbered in the order they are chosen and made; 0 stands for null.
MaxUploads == 2
MaxSources == 3
IdleUi ==
    [audioFile |-> 0, audioBuffer |-> 0, analysisResult |-> 0,
     isAnalyzing |-> FALSE, isPlaying |-> FALSE,
     upload |-> [k \in 1 .. MaxUploads |-> "none"],
     sourceNodeRef |-> 0,
     source |-> [n \in 1 .. MaxSources |-> "none"]]

\* No call of fft() is followed.
IdleTransform ==
    [phase |-> "idle", signal |-> << >>, real |-> << >>, imag |-> << >>,
     i |-> 0, j |-> 0, len |-> 0]

\* The locals of analyze() before they are assigned.
Unassigned ==
    /\ audioData = << >>
    /\ rmsLevel = 0 /\ peak = 0
    /\ spectralFeatures = << >> /\ harmonics = << >>
    /\ spectralCentroid = 0 /\ spectralRolloff = 0
    /\ fundamentalFreq = Null
    /\ envelope = << >>
    /\ numFrames = 0
    /\ spectrogram = << >>
    /\ result = Null

\* new AudioProcessor(audioBuffer, settings)
Init ==
    /\ audioBuffer \in AudioBuffers
    /\ settings \in SettingsRecords
    /\ windowFunction = createWindow(settings.windowSize)
    /\ pc = "downmix"
    /\ magnitude = << >>
    /\ Unassigned
    /\ calls = 0
    /\ transform = IdleTransform
    /\ ui = IdleUi

\* ------------------------------------------------------------ analyze()
\* The downmix written back into the first channel of the buffer.
DownmixMutInPlace ==
    /\ pc = "downmix"
    /\ audioData' =
         IF audioBuffer.numberOfChannels = 1 THEN audioBuffer.channels[1]
         ELSE [i \in DOMAIN audioBuffer.channels[1] |->
                 RoundDiv(audioBuffer.channels[1][i] + audioBuffer.channels[2][i], 2)]
    /\ audioBuffer' = [audioBuffer EXCEPT !.channels[1] = audioData']
    /\ pc' = "levels"
    /\ UNCHANGED << settings, windowFunction, rmsLevel, peak, magnitude,
                    spectralFeatures, harmonics, spectralCentroid, spectralRolloff,
                    fundamentalFreq, envelope, numFrames, spectrogram, result, calls, transform, ui >>
\* Lines 347-361: mono, or the mean of the first two channels.
Downmix ==
    /\ pc = "downmix"
    /\ audioData' =
         IF audioBuffer.numberOfChannels = 1 THEN audioBuffer.channels[1]
         ELSE LET left == audioBuffer.channels[1]
                  right == audioBuffer.channels[2]
              IN  [i \in DOMAIN left |-> RoundDiv(left[i] + right[i], 2)]
    /\ pc' = "levels"
    /\ UNCHANGED << audioBuffer, settings, windowFunction, rmsLevel, peak, magnitude,
                    spectralFeatures, harmonics, spectralCentroid, spectralRolloff,
                    fundamentalFreq, envelope, numFrames, spectrogram, result, calls, transform, ui >>

\* Lines 363-371: rmsLevel = sqrt(rmsSum / length), peak = max |sample|.
RECURSIVE PeakRange(_, _, _)
PeakRange(data, lo, hi) ==
    IF lo > hi THEN 0
    ELSE IF lo = hi THEN MathMax(0, MathAbs(data[lo]))
    ELSE LET mid == (lo + hi) \div 2
         IN  MathMax(PeakRange(data, lo, mid), PeakRange(data, mid + 1, hi))
PeakLevel(data) == PeakRange(data, 0, Length(data) - 1)
RmsLevel(data) ==
    LET rmsSum == SumOf([i \in DOMAIN data |-> data[i] * data[i]])
    IN  IF Length(data) = 0 THEN NaN ELSE MathSqrt(RoundDiv(rmsSum, Length(data)))
Levels ==
    /\ pc = "levels"
    /\ rmsLevel' = RmsLevel(audioData)
    /\ peak' = PeakLevel(audioData)
    /\ pc' = "centerFrame"
    /\ UNCHANGED << audioBuffer, settings, windowFunction, audioData, magnitude,
                    spectralFeatures, harmonics, spectralCentroid, spectralRolloff,
                    fundamentalFreq, envelope, numFrames, spectrogram, result, calls, transform, ui >>

\* Lines 373-383: the fftSize samples around the middle, times this.windowFunction[i].
CenterFrame(data, window, fftSize) ==
    LET start == FloorOfQuotient(Length(data) - fftSize, 2)
    IN  [i \in 0 .. fftSize - 1 |->
           IF start + i < Length(data) /\ start + i >= 0
           THEN MulCoef(Read(data, start + i), Read(window, i))
           ELSE 0]

\* Lines 373-387: the center frame, its FFT and its magnitude spectrum.
Transform ==
    /\ pc = "centerFrame"
    /\ LET transformed == fft(CenterFrame(audioData, windowFunction, settings.fftSize))
       IN  magnitude' = getMagnitudeSpectrum(transformed.real, transformed.imag)
    /\ pc' = "findPeaks"
    /\ UNCHANGED << audioBuffer, settings, windowFunction, audioData, rmsLevel, peak,
                    spectralFeatures, harmonics, spectralCentroid, spectralRolloff,
                    fundamentalFreq, envelope, numFrames, spectrogram, result, calls, transform, ui >>

\* Line 390
FindPeaks ==
    /\ pc = "findPeaks"
    /\ spectralFeatures' = findPeaks(magnitude, audioBuffer.sampleRate, settings)
    /\ pc' = "detectHarmonics"
    /\ UNCHANGED << audioBuffer, settings, windowFunction, audioData, rmsLevel, peak,
                    magnitude, harmonics, spectralCentroid, spectralRolloff,
                    fundamentalFreq, envelope, numFrames, spectrogram, result, calls, transform, ui >>

\* Line 393
DetectHarmonics ==
    /\ pc = "detectHarmonics"
    /\ harmonics' = detectHarmonics(spectralFeatures)
    /\ pc' = "statistics"
    /\ UNCHANGED << audioBuffer, settings, windowFunction, audioData, rmsLevel, peak,
                    magnitude, spectralFeatures, spectralCentroid, spectralRolloff,
                    fundamentalFreq, envelope, numFrames, spectrogram, result, calls, transform, ui >>

\* Lines 396-397
Statistics ==
    /\ pc = "statistics"
    /\ spectralCentroid' = calculateSpectralCentroid(magnitude, audioBuffer.sampleRate)
    /\ spectralRolloff' = calculateSpectralRolloff(magnitude, audioBuffer.sampleRate)
    /\ pc' = "fundamental"
    /\ UNCHANGED << audioBuffer, settings, windowFunction, audioData, rmsLevel, peak,
                    magnitude, spectralFeatures, harmonics,
                    fundamentalFreq, envelope, numFrames, spectrogram, result, calls, transform, ui >>

\* Lines 399-410
Fundamental ==
    /\ pc = "fundamental"
    /\ fundamentalFreq' = SelectFundamental(spectralFeatures, harmonics, settings)
    /\ pc' = "envelope"
    /\ UNCHANGED << audioBuffer, settings, windowFunction, audioData, rmsLevel, peak,
                    magnitude, spectralFeatures, harmonics, spectralCentroid, spectralRolloff,
                    envelope, numFrames, spectrogram, result, calls, transform, ui >>

\* Line 413
Envelope ==
    /\ pc = "envelope"
    /\ envelope' = calculateEnvelope(audioData, audioBuffer.sampleRate)
    /\ pc' = "spectrogram"
    /\ UNCHANGED << audioBuffer, settings, windowFunction, audioData, rmsLevel, peak,
                    magnitude, spectralFeatures, harmonics, spectralCentroid, spectralRolloff,
                    fundamentalFreq, numFrames, spectrogram, result, calls, transform, ui >>

\* Lines 311-316: the bound of the frame loop.
SpectrogramStart ==
    /\ pc = "spectrogram"
    /\ numFrames' = NumFrames(Length(audioData), settings)
    /\ spectrogram' = << >>
    /\ pc' = "frames"
    /\ UNCHANGED << audioBuffer, settings, windowFunction, audioData, rmsLevel, peak,
                    magnitude, spectralFeatures, harmonics, spectralCentroid, spectralRolloff,
                    fundamentalFreq, envelope, result, calls, transform, ui >>

\* Lines 318-341: one pass of the loop, frame = spectrogram.length.
SpectrogramPush ==
    /\ pc = "frames"
    /\ Lt(Len(spectrogram), numFrames)
    /\ numFrames = Infinity => Len(spectrogram) < MaxFrames
    /\ spectrogram' = Append(spectrogram,
                             SpectrogramFrame(audioData, Len(spectrogram), settings, windowFunction))
    /\ UNCHANGED << audioBuffer, settings, windowFunction, pc, audioData, rmsLevel, peak,
                    magnitude, spectralFeatures, harmonics, spectralCentroid, spectralRolloff,
                    fundamentalFreq, envelope, numFrames, result, calls, transform, ui >>

\* Lines 343, 418-431: the loop is left and the result returned.
Return ==
    /\ pc = "frames"
    /\ ~Lt(Len(spectrogram), numFrames)
    /\ result' = [spectralFeatures |-> spectralFeatures,
                  harmonics |-> harmonics,
                  fundamentalFreq |-> fundamentalFreq,
                  spectralCentroid |-> spectralCentroid,
                  spectralRolloff |-> spectralRolloff,
                  spectralFlux |-> 0,
                  rmsLevel |-> rmsLevel,
                  peakLevel |-> peak,
                  sampleRate |-> audioBuffer.sampleRate,
                  envelope |-> envelope,
                  spectrogram |-> spectrogram]
    /\ pc' = "done"
    /\ calls' = calls + 1
    /\ UNCHANGED << audioBuffer, settings, windowFunction, audioData, rmsLevel, peak,
                    magnitude, spectralFeatures, harmonics, spectralCentroid, spectralRolloff,
                    fundamentalFreq, envelope, numFrames, spectrogram, transform, ui >>

\* A second call of analyze() on the same processor: the locals are new, the
\* fields of the processor are as the first call left them.
AnalyzeAgain ==
    /\ pc = "done"
    /\ calls < MaxCalls
    /\ pc' = "downmix"
    /\ audioData' = << >> /\ rmsLevel' = 0 /\ peak' = 0 /\ magnitude' = << >>
    /\ spectralFeatures' = << >> /\ harmonics' = << >>
    /\ spectralCentroid' = 0 /\ spectralRolloff' = 0
    /\ fundamentalFreq' = Null
    /\ envelope' = << >> /\ numFrames' = 0 /\ spectrogram' = << >>
    /\ UNCHANGED << audioBuffer, settings, windowFunction, result, calls, transform, ui >>

\* new AudioProcessor(audioBuffer, settings).analyze() with the buffer and the
\* settings of the first processor.
ConstructAgain ==
    /\ pc = "done"
    /\ calls < MaxCalls
    /\ windowFunction' = createWindow(settings.windowSize)
    /\ pc' = "downmix"
    /\ audioData' = << >> /\ rmsLevel' = 0 /\ peak' = 0 /\ magnitude' = << >>
    /\ spectralFeatures' = << >> /\ harmonics' = << >>
    /\ spectralCentroid' = 0 /\ spectralRolloff' = 0
    /\ fundamentalFreq' = Null
    /\ envelope' = << >> /\ numFrames' = 0 /\ spectrogram' = << >>
    /\ UNCHANGED << audioBuffer, settings, result, calls, transform, ui >>

Next ==
    \/ Downmix \/ Levels \/ Transform \/ FindPeaks \/ DetectHarmonics \/ Statistics
    \/ Fundamental \/ Envelope \/ SpectrogramStart \/ SpectrogramPush \/ Return

Spec == Init /\ [][Next]_vars

\* Repeated analyses: sounding signals of the longer length at one sample rate,
\* mono and stereo, under the settings of one hopSize and minFreq.
InitTwice ==
    /\ Init
    /\ audioBuffer.sampleRate = 400
    /\ Length(audioBuffer.channels[1]) = 40
    /\ settings.hopSize = 8
    /\ settings.minFreq = 20

NextTwice == Next \/ AnalyzeAgain \/ ConstructAgain

SpecTwice == InitTwice /\ [][NextTwice]_vars

\* ------------------------------------------------------------ analysis of a given spectrum
\* findPeaks, detectHarmonics, the spectral statistics and the choice of the
\* fundamental are functions of the magnitude spectrum, the sample rate and the
\* settings alone.  SpecPeaks runs lines 390-410 of analyze() on magnitude
\* spectra of isolated partials: a low group at bins 3, 6, 9 and a high group at
\* bins 12, 24, 36, each partial absent or at one of two levels.
SpectrumLength == 40
LowPartials == {3, 6, 9}
HighPartials == {12, 24, 36}
LowLevels == {0, (90 * Scale) \div 100, (95 * Scale) \div 100}
HighLevels == {0, (20 * Scale) \div 100, Scale}
PartialSpectra ==
    { [i \in 0 .. SpectrumLength - 1 |->
         IF i \in LowPartials THEN low[i] ELSE IF i \in HighPartials THEN high[i] ELSE 0] :
      low \in [LowPartials -> LowLevels], high \in [HighPartials -> HighLevels] }
PartialSampleRates == {400, 800}

InitPeaks ==
    /\ audioBuffer \in { [sampleRate |-> r, numberOfChannels |-> 1, channels |-> << Zeros(0) >>] :
                         r \in PartialSampleRates }
    /\ settings \in { [fftSize |-> 2 * SpectrumLength, windowSize |-> 2 * SpectrumLength,
                       hopSize |-> SpectrumLength \div 2, minFreq |-> lo, maxFreq |-> 20000,
                       harmonicThreshold |-> ThresholdScale \div 10, noiseFloor |-> -60] :
                      lo \in MinFreqs }
    /\ windowFunction = createWindow(settings.windowSize)
    /\ pc = "findPeaks"
    /\ Unassigned
    /\ calls = 0
    /\ transform = IdleTransform
    /\ ui = IdleUi
    /\ magnitude \in PartialSpectra

NextPeaks == FindPeaks \/ DetectHarmonics \/ Statistics \/ Fundamental

SpecPeaks == InitPeaks /\ [][NextPeaks]_vars

\* ------------------------------------------------------------ grouping of a given peak list
\* detectHarmonics is a function of the peak list alone.  SpecGrouper runs
\* line 393 of analyze() on peak lists in order of strictly decreasing
\* magnitude, as findPeaks leaves them.  The frequencies are multiples of a base
\* (in units of 1/FreqScale Hz) by the ratios of a pool, in thousandths: a
\* harmonic group 1 : 2 : 3 : 4 : 5 with a second third partial 1% sharp, and a
\* group 1.515 : 4.545 : 7.575 whose missing second harmonic would be that
\* sharp partial.  A list takes any subset of the pool, in one of two orders
\* of magnitude: the harmonic group first, or the other group first and the
\* sharp partial before the true one.
HarmonicRatios == << 1000, 2000, 3000, 3030, 4000, 5000 >>
SharpFirstRatios == << 1000, 2000, 3030, 3000, 4000, 5000 >>
OddRatios == << 1515, 4545, 7575 >>
RatioOrders == {HarmonicRatios \o OddRatios, OddRatios \o SharpFirstRatios}
PoolRatios == {HarmonicRatios[p] : p \in DOMAIN HarmonicRatios} \cup {OddRatios[p] : p \in DOMAIN OddRatios}
BaseFrequencies == {1, 2}
RECURSIVE Selected(_, _)
Selected(order, chosen) ==
    \* the entries of order that are in chosen, in order
    IF order = << >> THEN << >>
    ELSE IF Head(order) \in chosen THEN << Head(order) >> \o Selected(Tail(order), chosen)
    ELSE Selected(Tail(order), chosen)
PeakList(ratios, base) ==
    [p \in 1 .. Len(ratios) |->
       [frequency |-> ratios[p] * base,
        magnitude |-> ((Len(HarmonicRatios) + Len(OddRatios) + 1 - p) * Scale) \div 10,
        phase |-> 0,
        bandwidth |-> base,
        bin |-> p]]
PeakLists ==
    { PeakList(Selected(order, chosen), base) :
      order \in RatioOrders, base \in BaseFrequencies, chosen \in SUBSET PoolRatios }

InitGrouper ==
    /\ audioBuffer = [sampleRate |-> 2000, numberOfChannels |-> 1, channels |-> << Zeros(0) >>]
    /\ settings = [fftSize |-> 2 * SpectrumLength, windowSize |-> 2 * SpectrumLength,
                   hopSize |-> SpectrumLength \div 2, minFreq |-> 20, maxFreq |-> 20000,
                   harmonicThreshold |-> ThresholdScale \div 10, noiseFloor |-> -60]
    /\ windowFunction = createWindow(settings.windowSize)
    /\ pc = "detectHarmonics"
    /\ magnitude = Zeros(SpectrumLength)
    /\ audioData = << >>
    /\ rmsLevel = 0 /\ peak = 0
    /\ harmonics = << >>
    /\ spectralCentroid = 0 /\ spectralRolloff = 0
    /\ fundamentalFreq = Null
    /\ envelope = << >>
    /\ numFrames = 0
    /\ spectrogram = << >>
    /\ result = Null
    /\ calls = 0
    /\ transform = IdleTransform
    /\ ui = IdleUi
    /\ spectralFeatures \in PeakLists

NextGrouper == DetectHarmonics

SpecGrouper == InitGrouper /\ [][NextGrouper]_vars

\* ------------------------------------------------------------ analysis of a dense spectrum
\* SpecBins runs lines 390-410 of analyze() on every spectrum of DenseLength
\* bins with each bin at one of three levels, and on the spectrum of no bins
\* (the magnitude spectrum of an fftSize of 1), at 20 Hz a bin and a
\* harmonicThreshold of one half.  Peaks can stand at bins 2 .. DenseLength - 3,
\* next to each other's neighbours, at, above and below the threshold, and on
\* both sides of either end of [minFreq, maxFreq].
DenseLength == 8
DenseLevels == {0, Scale \div 2, Scale}
DenseSpectra == [0 .. DenseLength - 1 -> DenseLevels] \cup {Zeros(0)}
DenseMaxFreqs == {70, 20000}

InitBins ==
    /\ audioBuffer = [sampleRate |-> 40 * DenseLength, numberOfChannels |-> 1,
                      channels |-> << Zeros(0) >>]
    /\ settings \in { [fftSize |-> 2 * DenseLength, windowSize |-> 2 * DenseLength,
                       hopSize |-> DenseLength, minFreq |-> lo, maxFreq |-> hi,
                       harmonicThreshold |-> ThresholdScale \div 2, noiseFloor |-> -60] :
                      lo \in MinFreqs, hi \in DenseMaxFreqs }
    /\ windowFunction = createWindow(settings.windowSize)
    /\ pc = "findPeaks"
    /\ Unassigned
    /\ calls = 0
    /\ transform = IdleTransform
    /\ ui = IdleUi
    /\ magnitude \in DenseSpectra

SpecBins == InitBins /\ [][NextPeaks]_vars

\* ------------------------------------------------------------ analysis of a peak on a plateau
\* SpecPlateau runs lines 390-410 of analyze() on spectra of one peak of level
\* Scale that stands on a plateau: the bins below the peak are at the plateau's
\* level up to a distance d - 1 and 0 from the distance d on, the bins above it
\* likewise for a distance u.  The plateau is just below, just above or well
\* above 0.707 of the peak, and d runs past BandwidthSteps.
PlateauLength == 26
PlateauPeaks == {3, 21, 23}
PlateauLevels == {(70 * Scale) \div 100, (71 * Scale) \div 100, (80 * Scale) \div 100}
PlateauDrops == 1 .. BandwidthSteps + 3
PlateauRises == {1, 3}
PlateauSpectrum(p, level, d, u) ==
    [k \in 0 .. PlateauLength - 1 |->
       IF k = p THEN Scale
       ELSE IF k < p THEN (IF p - k >= d THEN 0 ELSE level)
       ELSE (IF k - p >= u THEN 0 ELSE level)]
PlateauSpectra ==
    { PlateauSpectrum(p, level, d, u) :
      p \in PlateauPeaks, level \in PlateauLevels, d \in PlateauDrops, u \in PlateauRises }

InitPlateau ==
    /\ audioBuffer = [sampleRate |-> 20 * PlateauLength, numberOfChannels |-> 1,
                      channels |-> << Zeros(0) >>]
    /\ settings = [fftSize |-> 2 * PlateauLength, windowSize |-> 2 * PlateauLength,
                   hopSize |-> PlateauLength, minFreq |-> 20, maxFreq |-> 20000,
                   harmonicThreshold |-> ThresholdScale \div 10, noiseFloor |-> -60]
    /\ windowFunction = createWindow(settings.windowSize)
    /\ pc = "findPeaks"
    /\ Unassigned
    /\ calls = 0
    /\ transform = IdleTransform
    /\ ui = IdleUi
    /\ magnitude \in PlateauSpectra

SpecPlateau == InitPlateau /\ [][NextPeaks]_vars

\* ------------------------------------------------------------ fft() step by step
\* SpecFft follows one call of fft(signal) through its phases: the copy of
\* lines 72-80, the passes of the bit-reversal loop of lines 83-96 one by one,
\* the butterfly stages of lines 99-116 one by one, and the return of line 118.
\* The signals are ramps a + b * i of distinct samples, of lengths that are
\* powers of two and of two lengths that are not.
RampLengths == {1, 2, 4, 8, 16, 6, 12}
RampStarts == {0, 5 * Scale}
RampSlopes == {Scale, -Scale, 3 * Scale}
Ramp(n, a, b) == [i \in 0 .. n - 1 |-> a + b * i]
Ramps == { Ramp(n, a, b) : n \in RampLengths, a \in RampStarts, b \in RampSlopes }

InitFft ==
    /\ audioBuffer = [sampleRate |-> 400, numberOfChannels |-> 1, channels |-> << Zeros(0) >>]
    /\ settings = [fftSize |-> 8, windowSize |-> 8, hopSize |-> 2, minFreq |-> 20,
                   maxFreq |-> 20000, harmonicThreshold |-> ThresholdScale \div 10,
                   noiseFloor |-> -60]
    /\ windowFunction = createWindow(settings.windowSize)
    /\ pc = "fft"
    /\ magnitude = << >>
    /\ Unassigned
    /\ calls = 0
    /\ transform \in { [phase |-> "copy", signal |-> signal, real |-> << >>, imag |-> << >>,
                         i |-> 0, j |-> 0, len |-> 0] : signal \in Ramps }
    /\ ui = IdleUi

\* Lines 72-82: the arrays are made and filled, j = 0, and the loop starts at i = 1.
FftCopy ==
    /\ transform.phase = "copy"
    /\ transform' = [transform EXCEPT
                       !.real = transform.signal,
                       !.imag = Zeros(Length(transform.signal)),
                       !.j = 0,
                       !.i = 1,
                       !.len = 2,
                       !.phase = IF 1 < Length(transform.signal) THEN "reverse" ELSE "stages"]
    /\ UNCHANGED << audioBuffer, settings, windowFunction, pc, audioData, rmsLevel, peak,
                    magnitude, spectralFeatures, harmonics, spectralCentroid, spectralRolloff,
                    fundamentalFreq, envelope, numFrames, spectrogram, result, calls, ui >>

\* Lines 84-96: one pass of the bit-reversal loop; after the pass for i = N - 1
\* the stages start at len = 2.
FftReverse ==
    /\ transform.phase = "reverse"
    /\ LET N == Length(transform.signal)
           c == BitReversalStep([real |-> transform.real, imag |-> transform.imag,
                                 j |-> transform.j], transform.i, N)
       IN  transform' = [transform EXCEPT
                           !.real = c.real, !.imag = c.imag, !.j = c.j,
                           !.i = transform.i + 1,
                           !.phase = IF transform.i + 1 < N THEN "reverse" ELSE "stages"]
    /\ UNCHANGED << audioBuffer, settings, windowFunction, pc, audioData, rmsLevel, peak,
                    magnitude, spectralFeatures, harmonics, spectralCentroid, spectralRolloff,
                    fundamentalFreq, envelope, numFrames, spectrogram, result, calls, ui >>

\* Lines 99-116: one stage of the butterflies.
FftStage ==
    /\ transform.phase = "stages"
    /\ transform.len <= Length(transform.signal)
    /\ LET c == ButterflyStage([real |-> transform.real, imag |-> transform.imag],
                               transform.len, Length(transform.signal))
       IN  transform' = [transform EXCEPT
                           !.real = c.real, !.imag = c.imag, !.len = 2 * transform.len]
    /\ UNCHANGED << audioBuffer, settings, windowFunction, pc, audioData, rmsLevel, peak,
                    magnitude, spectralFeatures, harmonics, spectralCentroid, spectralRolloff,
                    fundamentalFreq, envelope, numFrames, spectrogram, result, calls, ui >>

\* Line 118
FftReturn ==
    /\ transform.phase = "stages"
    /\ transform.len > Length(transform.signal)
    /\ transform' = [transform EXCEPT !.phase = "returned"]
    /\ UNCHANGED << audioBuffer, settings, windowFunction, pc, audioData, rmsLevel, peak,
                    magnitude, spectralFeatures, harmonics, spectralCentroid, spectralRolloff,
                    fundamentalFreq, envelope, numFrames, spectrogram, result, calls, ui >>

NextFft == FftCopy \/ FftReverse \/ FftStage \/ FftReturn

SpecFft == InitFft /\ [][NextFft]_vars

\* ------------------------------------------------------------ the AudioAnalyzer component
\* SpecUi follows the handlers of the component and the callbacks they leave
\* pending.  handleFileUpload runs to its first await; the promises of
\* file.arrayBuffer() and decodeAudioData() settle later, in any order over the
\* uploads, each resuming its own call; analyze() and the rest of the call run
\* in the microtasks that follow the decode, without another task between.
\* upload[k] is the position of the k-th call: "none", "rejected" (not an audio
\* file), "reading", "decoding", "done" or "failed".  source[n] is the n-th
\* source node: "none", "playing", "finished" (played to its end, onended
\* pending), "stopped" (stop() called, onended pending) or "ended".
NoOtherChange ==
    UNCHANGED << audioBuffer, settings, windowFunction, pc, audioData, rmsLevel, peak,
                 magnitude, spectralFeatures, harmonics, spectralCentroid, spectralRolloff,
                 fundamentalFreq, envelope, numFrames, spectrogram, result, calls, transform >>

InitUi ==
    /\ audioBuffer = [sampleRate |-> 400, numberOfChannels |-> 1, channels |-> << Zeros(0) >>]
    /\ settings = [fftSize |-> 32, windowSize |-> 8, hopSize |-> 2, minFreq |-> 20,
                   maxFreq |-> 20000, harmonicThreshold |-> ThresholdScale \div 10,
                   noiseFloor |-> -60]
    /\ windowFunction = createWindow(settings.windowSize)
    /\ pc = "ui"
    /\ magnitude = << >>
    /\ Unassigned
    /\ calls = 0
    /\ transform = IdleTransform
    /\ ui = IdleUi

\* The next file chosen is the k-th.
NextUpload(k) == k \in 1 .. MaxUploads /\ ui.upload[k] = "none"
                 /\ \A h \in 1 .. k - 1 : ui.upload[h] # "none"

\* Lines 332-343: the file is not an audio file; a toast, and nothing is set.
UploadRejected ==
    /\ \E k \in 1 .. MaxUploads :
          /\ NextUpload(k)
          /\ ui' = [ui EXCEPT !.upload[k] = "rejected"]
    /\ NoOtherChange

\* Lines 332-350: setAudioFile(file), setIsAnalyzing(true), up to the await of
\* file.arrayBuffer().
UploadStarted ==
    /\ \E k \in 1 .. MaxUploads :
          /\ NextUpload(k)
          /\ ui' = [ui EXCEPT !.audioFile = k, !.isAnalyzing = TRUE, !.upload[k] = "reading"]
    /\ NoOtherChange

\* Lines 350-351: arrayBuffer() resolves; up to the await of decodeAudioData().
UploadRead ==
    /\ \E k \in 1 .. MaxUploads :
          /\ ui.upload[k] = "reading"
          /\ ui' = [ui EXCEPT !.upload[k] = "decoding"]
    /\ NoOtherChange

\* Lines 351-363: decodeAudioData() resolves; setAudioBuffer, analyze(),
\* setAnalysisResult, the toast; line 373: setIsAnalyzing(false).
UploadDecoded ==
    /\ \E k \in 1 .. MaxUploads :
          /\ ui.upload[k] = "decoding"
          /\ ui' = [ui EXCEPT !.audioBuffer = k, !.analysisResult = k,
                              !.isAnalyzing = FALSE, !.upload[k] = "done"]
    /\ NoOtherChange

\* Lines 365-374: arrayBuffer() or decodeAudioData() rejects; the catch block,
\* then setIsAnalyzing(false).
UploadFailed ==
    /\ \E k \in 1 .. MaxUploads :
          /\ ui.upload[k] \in {"reading", "decoding"}
          /\ ui' = [ui EXCEPT !.isAnalyzing = FALSE, !.upload[k] = "failed"]
    /\ NoOtherChange

\* Lines 378-384: a click on the button (rendered when audioBuffer is set,
\* line 427) while isPlaying: sourceNodeRef.current.stop(), setIsPlaying(false).
\* stop() on a node that plays leaves its onended pending.
PauseClicked ==
    /\ ui.audioBuffer # 0
    /\ ui.isPlaying
    /\ ui' = [ui EXCEPT !.isPlaying = FALSE,
                        !.source = [n \in 1 .. MaxSources |->
                                      IF n = ui.sourceNodeRef /\ ui.source[n] = "playing"
                                      THEN "stopped" ELSE ui.source[n]]]
    /\ NoOtherChange

\* Lines 378-396: a click while not isPlaying: a new source node is made,
\* kept in sourceNodeRef and started; setIsPlaying(true).
PlayClicked ==
    /\ ui.audioBuffer # 0
    /\ ~ui.isPlaying
    /\ \E n \in 1 .. MaxSources :
          /\ ui.source[n] = "none"
          /\ \A m \in 1 .. n - 1 : ui.source[m] # "none"
          /\ ui' = [ui EXCEPT !.source[n] = "playing", !.sourceNodeRef = n,
                              !.isPlaying = TRUE]
    /\ NoOtherChange

\* A source node plays its buffer to the end: its ended event is queued.
SourceFinished ==
    /\ \E n \in 1 .. MaxSources :
          /\ ui.source[n] = "playing"
          /\ ui' = [ui EXCEPT !.source[n] = "finished"]
    /\ NoOtherChange

\* Line 392: the onended callback of a node runs: setIsPlaying(false).
SourceEnded ==
    /\ \E n \in 1 .. MaxSources :
          /\ ui.source[n] \in {"finished", "stopped"}
          /\ ui' = [ui EXCEPT !.source[n] = "ended", !.isPlaying = FALSE]
    /\ NoOtherChange

NextUi ==
    \/ UploadRejected \/ UploadStarted \/ UploadRead \/ UploadDecoded \/ UploadFailed
    \/ PauseClicked \/ PlayClicked \/ SourceFinished \/ SourceEnded

SpecUi == InitUi /\ [][NextUi]_vars

\* ------------------------------------------------------------ vocabulary of the properties
Returned == pc = "done"
SampleCount == Length(audioBuffer.channels[1])
IsPowerOfTwo(n) == n >= 1 /\ BitAnd(n, n - 1) = 0
FitsInput(n) == n <= SampleCount

\* power-of-two fftSize and windowSize, each at most the sample count, an
\* integer hopSize, harmonicThreshold in (0, 1]
ValidSettings ==
    /\ IsPowerOfTwo(settings.fftSize) /\ IsPowerOfTwo(settings.windowSize)
    /\ FitsInput(settings.fftSize) /\ FitsInput(settings.windowSize)
    /\ settings.hopSize \in Int
    /\ settings.harmonicThreshold > 0 /\ settings.harmonicThreshold <= ThresholdScale

\* The shape of the application's default settings: fftSize = 4 * windowSize,
\* windowSize = 4 * hopSize, minFreq = 20, maxFreq = 20000, harmonicThreshold = 0.1.
DefaultShaped ==
    /\ settings.fftSize = 4 * settings.windowSize
    /\ settings.windowSize = 4 * settings.hopSize
    /\ settings.minFreq = 20 /\ settings.maxFreq = 20000
    /\ settings.harmonicThreshold * 10 = ThresholdScale

SineInputs == {Signal(Sine, n) : n \in SignalLengths \ {0}}
MonoSine == audioBuffer.numberOfChannels = 1 /\ audioBuffer.channels[1] \in SineInputs
SilentInput ==
    \A c \in DOMAIN audioBuffer.channels :
        \A i \in DOMAIN audioBuffer.channels[c] : audioBuffer.channels[c][i] = 0

SortedDescending(list, field) ==
    \A k \in 1 .. Len(list) - 1 : list[k][field] >= list[k + 1][field]

\* ------------------------------------------------------------ C1
\* C1: a mono full-scale sine at least fftSize samples long, analysed with
\* settings of the default shape, gives a result whose fundamentalFreq is not
\* null and lies within one frequency bin (sampleRate / fftSize) of the sine's
\* frequency, 4 * sampleRate / SignalPeriod.
C1_SineFundamental ==
    (Returned /\ MonoSine /\ DefaultShaped /\ FitsInput(settings.fftSize))
    => /\ result.fundamentalFreq # Null
       /\ Abs(SignalPeriod * result.fundamentalFreq - 4 * audioBuffer.sampleRate * FreqScale)
            * settings.fftSize
          <= SignalPeriod * audioBuffer.sampleRate * FreqScale

\* ------------------------------------------------------------ C2
\* C2: spectralFeatures is in non-increasing order of magnitude and harmonics
\* in non-increasing order of strength, from the moment each is computed.
C2_SortedOutputs ==
    /\ SortedDescending(spectralFeatures, "magnitude")
    /\ SortedDescending(harmonics, "strength")

\* Two series were found, the stronger one second, and the peaks were not in
\* order of magnitude when they were found.
C2_Witness ==
    /\ pc = "envelope"
    /\ Len(harmonics) >= 2
    /\ harmonics[1].strength > harmonics[2].strength
    /\ spectralFeatures[harmonics[1].members[1]].magnitude
         < spectralFeatures[harmonics[2].members[1]].magnitude
    /\ \E k \in 1 .. Len(spectralFeatures) - 1 :
           /\ spectralFeatures[k].bin > spectralFeatures[k + 1].bin
           /\ spectralFeatures[k].magnitude > spectralFeatures[k + 1].magnitude

\* ------------------------------------------------------------ C3
\* C3: the returned fundamentalFreq is the fundamental of a series of greatest
\* strength if any series was found; else the frequency of the lowest-frequency
\* peak at or above minFreq if there is one; else null.
C3_FundamentalSelection ==
    Returned =>
      LET features == result.spectralFeatures
          series == result.harmonics
          eligible == {k \in 1 .. Len(features) :
                         features[k].frequency >= settings.minFreq * FreqScale}
      IN  IF Len(series) > 0
          THEN \E k \in 1 .. Len(series) :
                 /\ \A j \in 1 .. Len(series) : series[j].strength <= series[k].strength
                 /\ result.fundamentalFreq = series[k].fundamental
          ELSE IF eligible # {}
          THEN \E k \in eligible :
                 /\ \A j \in eligible : features[k].frequency <= features[j].frequency
                 /\ result.fundamentalFreq = features[k].frequency
          ELSE result.fundamentalFreq = Null

\* ------------------------------------------------------------ C4
\* C4: the returned envelope has one entry per input sample, and every entry
\* is a number >= 0.
C4_EnvelopeNumbers ==
    Returned =>
      /\ Length(result.envelope) = SampleCount
      /\ \A i \in DOMAIN result.envelope :
           ~IsNaN(result.envelope[i]) /\ result.envelope[i] >= 0

\* ------------------------------------------------------------ C5
\* C5: no result is returned when fftSize or windowSize is not a power of two
\* (the sizes being at most the sample count).
C5_PowerOfTwoOrNoResult ==
    (Returned /\ FitsInput(settings.fftSize) /\ FitsInput(settings.windowSize))
    => IsPowerOfTwo(settings.fftSize) /\ IsPowerOfTwo(settings.windowSize)

\* ------------------------------------------------------------ C6
\* C6: no result is returned for a non-empty input shorter than fftSize or
\* windowSize (the sizes being powers of two).
C6_FitsOrNoResult ==
    (Returned /\ SampleCount > 0
       /\ IsPowerOfTwo(settings.fftSize) /\ IsPowerOfTwo(settings.windowSize))
    => FitsInput(settings.fftSize) /\ FitsInput(settings.windowSize)

\* ------------------------------------------------------------ C7
\* C7: no result is returned for an input of zero samples.
C7_EmptyInputNoResult == Returned => SampleCount > 0

\* ------------------------------------------------------------ C8
\* C8: for a non-empty input and valid settings the frame loop of
\* generateSpectrogram has a finite bound, so that analyze() comes to its
\* return.  (for (frame = 0; frame < Infinity; frame++) never ends.)
C8_FrameLoopBounded ==
    (pc = "frames" /\ SampleCount > 0 /\ ValidSettings) => numFrames # Infinity

\* ------------------------------------------------------------ C9
\* C9: for an all-zero input of positive length and valid settings the result
\* has no spectral features, no harmonics, a null fundamentalFreq, and
\* rmsLevel = peakLevel = 0.
C9_Silence ==
    (Returned /\ SampleCount > 0 /\ SilentInput /\ ValidSettings)
    => /\ result.spectralFeatures = << >>
       /\ result.harmonics = << >>
       /\ result.fundamentalFreq = Null
       /\ result.rmsLevel = 0
       /\ result.peakLevel = 0

C9_Witness ==
    /\ Returned /\ SampleCount > 0 /\ SilentInput /\ ValidSettings
    /\ audioBuffer.numberOfChannels = 2
    /\ Len(result.spectrogram) > 0

\* ------------------------------------------------------------ C10
\* C10: in a returned result fundamentalFreq is null exactly if
\* spectralFeatures is empty.
C10_NullIffNoPeaks ==
    Returned => (result.fundamentalFreq = Null <=> result.spectralFeatures = << >>)

\* A result with peaks, no harmonic series, and a fundamentalFreq.
C10_Witness ==
    /\ Returned
    /\ result.spectralFeatures # << >>
    /\ result.harmonics = << >>
    /\ result.fundamentalFreq # Null

\* ------------------------------------------------------------ C11
\* C11: for a peak list of exactly five peaks at f, 2f, 3f, 4f, 5f with strictly
\* decreasing magnitudes, detectHarmonics returns exactly one series, of
\* fundamental f, with all five peaks as members and inharmonicity 0.
FivePartials ==
    /\ Len(spectralFeatures) = 5
    /\ spectralFeatures[1].frequency > 0
    /\ \A p \in 1 .. 5 : spectralFeatures[p].frequency = p * spectralFeatures[1].frequency
    /\ \A p \in 1 .. 4 : spectralFeatures[p].magnitude > spectralFeatures[p + 1].magnitude
C11_FivePartialsOneSeries ==
    (pc = "statistics" /\ FivePartials)
    => /\ Len(harmonics) = 1
       /\ harmonics[1].fundamental = spectralFeatures[1].frequency
       /\ harmonics[1].overtones = spectralFeatures
       /\ harmonics[1].inharmonicity = 0

C11_Witness == pc = "statistics" /\ FivePartials /\ Len(harmonics) = 1

\* ------------------------------------------------------------ C17
\* C17: the inharmonicity of every series is the mean, over its overtones, of
\* the relative deviation of the overtone from k * fundamental, k being the
\* harmonic number the overtone was matched for; hence it is below 0.02.
MatchedDeviation(series, p) ==
    LET expected == series.fundamental * series.orders[p]
    IN  RoundDiv(Abs(series.overtones[p].frequency - expected) * InharmScale, expected)
C17_InharmonicityOfMatches ==
    \A s \in DOMAIN harmonics :
       LET series == harmonics[s]
           n == Len(series.overtones)
       IN  /\ series.inharmonicity =
                RoundDiv(SumSeq([p \in 1 .. n |-> IF p = 1 THEN 0 ELSE MatchedDeviation(series, p)],
                                1, n),
                         n - 1)
           /\ series.inharmonicity * ToleranceDen < ToleranceNum * InharmScale

\* ------------------------------------------------------------ C18
\* C18: no peak is a member of two series or twice a member of one, and no
\* series has a member that was claimed before its candidate was taken up.
MemberSet(series) == {series.members[p] : p \in DOMAIN series.members}
C18_PeaksClaimedOnce ==
    /\ \A a, b \in DOMAIN harmonics : a # b => MemberSet(harmonics[a]) \cap MemberSet(harmonics[b]) = {}
    /\ \A a \in DOMAIN harmonics :
         /\ \A p, q \in DOMAIN harmonics[a].members :
              p # q => harmonics[a].members[p] # harmonics[a].members[q]
         /\ MemberSet(harmonics[a]) \cap harmonics[a].claimedBefore = {}

\* Two series; an overtone of the one found first is within the tolerance of a
\* multiple of the other's fundamental, with a smaller relative error than it
\* has in its own series.
C18_Witness ==
    \E a, b \in DOMAIN harmonics :
       /\ harmonics[a].members[1] < harmonics[b].members[1]
       /\ \E p \in 2 .. Len(harmonics[a].members) : \E k \in 2 .. MaxHarmonic :
            LET f == harmonics[a].overtones[p].frequency
                own == harmonics[a].fundamental * harmonics[a].orders[p]
                other == harmonics[b].fundamental * k
            IN  /\ harmonics[a].members[p] > harmonics[b].members[1]
                /\ WithinTolerance(f, other)
                /\ Abs(f - other) * own < Abs(f - own) * other

\* ------------------------------------------------------------ C19
\* C19: every series has at least 3 members; its members after the first were
\* matched for strictly increasing harmonic numbers in 2..20; each is of higher
\* index than the fundamental, was unclaimed when it was matched, is within 2%
\* of its multiple of the fundamental, and no peak of higher index than the
\* fundamental that was unclaimed then is nearer to that multiple.
C19_BestUnclaimedMatches ==
    \A s \in DOMAIN harmonics :
       LET series == harmonics[s]
           n == Len(series.members)
           target(p) == series.fundamental * series.orders[p]
           error(j, p) == Abs(spectralFeatures[j].frequency - target(p))
           unclaimed(p) == {j \in series.members[1] + 1 .. Len(spectralFeatures) :
                              /\ j \notin series.claimedBefore
                              /\ \A q \in 1 .. p - 1 : series.members[q] # j}
       IN  /\ n >= MinSeriesLength
           /\ series.orders[1] = 1
           /\ \A p \in 2 .. n :
                /\ series.orders[p] \in 2 .. MaxHarmonic
                /\ series.orders[p] > series.orders[p - 1]
                /\ series.members[p] \in unclaimed(p)
                /\ error(series.members[p], p) * ToleranceDen < ToleranceNum * target(p)
                /\ \A j \in unclaimed(p) : error(j, p) >= error(series.members[p], p)

\* A series that skipped a harmonic number and took a peak over an unclaimed
\* one of lower index that was within the tolerance too.
C19_Witness ==
    \E s \in DOMAIN harmonics :
       LET series == harmonics[s]
       IN  /\ \E p \in 2 .. Len(series.members) : series.orders[p] > series.orders[p - 1] + 1
           /\ \E p \in 2 .. Len(series.members) :
                \E j \in series.members[1] + 1 .. series.members[p] - 1 :
                   /\ j \notin series.claimedBefore
                   /\ \A q \in 1 .. p - 1 : series.members[q] # j
                   /\ WithinTolerance(spectralFeatures[j].frequency,
                                      series.fundamental * series.orders[p])
\* ------------------------------------------------------------ C12
\* The bins of a spectrum that pass the peak test of lines 146-150.
PeakBins == {i \in 2 .. Length(magnitude) - 3 :
               /\ magnitude[i] * ThresholdScale > MathMaxOf(magnitude) * settings.harmonicThreshold
               /\ \A d \in {-2, -1, 1, 2} : magnitude[i] > magnitude[i + d]}
\* The interpolated frequency of bin i, in 1/FreqScale Hz.
RefinedFrequency(i) ==
    BinToFrequency(i * OffsetScale + PeakOffset(magnitude[i - 1], magnitude[i], magnitude[i + 1]),
                   Length(magnitude), audioBuffer.sampleRate)
InBand(frequency) ==
    /\ IsFinite(frequency)
    /\ settings.minFreq * FreqScale <= frequency
    /\ frequency <= settings.maxFreq * FreqScale
PeaksFound == pc \in {"detectHarmonics", "statistics", "fundamental", "envelope"}

\* C12: every peak of spectralFeatures has a frequency f with
\* minFreq <= f <= maxFreq.
C12_PeaksInBand ==
    PeaksFound => \A p \in DOMAIN spectralFeatures : InBand(spectralFeatures[p].frequency)
\* A peak is reported while another bin passes the peak test with a frequency
\* above maxFreq.
C12_Witness ==
    /\ PeaksFound
    /\ spectralFeatures # << >>
    /\ \E i \in PeakBins : RefinedFrequency(i) > settings.maxFreq * FreqScale

\* ------------------------------------------------------------ C20
ReportedBins == {spectralFeatures[p].bin : p \in DOMAIN spectralFeatures}
\* C20: findPeaks reports a peak for bin i exactly when 2 <= i <= len - 3,
\* spectrum[i] > max(spectrum) * harmonicThreshold, spectrum[i] is strictly
\* greater than spectrum[i-1], spectrum[i+1], spectrum[i-2] and spectrum[i+2] and
\* the refined frequency lies in [minFreq, maxFreq]; it reports one peak for
\* the bin, with magnitude spectrum[i], the refined frequency and phase 0.
C20_PeakExactlyWhen ==
    pc = "detectHarmonics" =>
        /\ ReportedBins = {i \in PeakBins : InBand(RefinedFrequency(i))}
        /\ Cardinality(ReportedBins) = Len(spectralFeatures)
        /\ \A p \in DOMAIN spectralFeatures :
              /\ spectralFeatures[p].magnitude = magnitude[spectralFeatures[p].bin]
              /\ spectralFeatures[p].frequency = RefinedFrequency(spectralFeatures[p].bin)
              /\ spectralFeatures[p].phase = 0
\* A peak is reported; another bin above both nearest neighbours and above the
\* threshold is not, for a bin two away that is as high.
C20_Witness ==
    /\ pc = "detectHarmonics"
    /\ spectralFeatures # << >>
    /\ \E i \in 2 .. Length(magnitude) - 3 :
          /\ magnitude[i] * ThresholdScale > MathMaxOf(magnitude) * settings.harmonicThreshold
          /\ magnitude[i] > magnitude[i - 1] /\ magnitude[i] > magnitude[i + 1]
          /\ i \notin PeakBins

\* ------------------------------------------------------------ C16
\* The indices of the center frame that fall inside the signal (line 380).
FrameIndicesRead ==
    LET start == FloorOfQuotient(Length(audioData) - settings.fftSize, 2)
    IN  {i \in 0 .. settings.fftSize - 1 :
           start + i >= 0 /\ start + i < Length(audioData)}
\* C16: for power-of-two fftSize and windowSize, every read of the window at an
\* index of the center frame is inside the window array built by the
\* constructor, and the frame passed to the FFT holds only numbers.
C16_CenterFrameWindowed ==
    (pc = "centerFrame" /\ IsPowerOfTwo(settings.fftSize) /\ IsPowerOfTwo(settings.windowSize)) =>
        /\ \A i \in FrameIndicesRead : i < Length(windowFunction)
        /\ \A i \in 0 .. settings.fftSize - 1 :
              ~IsNaN(CenterFrame(audioData, windowFunction, settings.fftSize)[i])

\* ------------------------------------------------------------ C13
\* The signal from sample d onward.
From(data, d) == [i \in 0 .. Length(data) - d - 1 |-> data[i + d]]
\* C13: for sampleCount >= windowSize and hopSize >= 1 the spectrogram has
\* floor((sampleCount - windowSize) / hopSize) + 1 frames, frame k is the
\* frame of the windowSize samples from sample k * hopSize on, every frame has
\* windowSize / 2 entries and every entry is a number >= 0.
C13_SpectrogramShape ==
    (Returned /\ SampleCount >= settings.windowSize /\ settings.hopSize >= 1) =>
        /\ Len(result.spectrogram) =
              ((SampleCount - settings.windowSize) \div settings.hopSize) + 1
        /\ \A k \in 0 .. Len(result.spectrogram) - 1 :
              /\ result.spectrogram[k + 1] =
                    SpectrogramFrame(From(audioData, k * settings.hopSize), 0,
                                     settings, windowFunction)
              /\ DOMAIN result.spectrogram[k + 1] = 0 .. (settings.windowSize \div 2) - 1
              /\ \A i \in DOMAIN result.spectrogram[k + 1] :
                    /\ IsFinite(result.spectrogram[k + 1][i])
                    /\ result.spectrogram[k + 1][i] >= 0
\* A sounding signal whose last hop is cut short by the floor, in several
\* frames that differ, for a windowSize that is no power of two.
C13_Witness ==
    /\ Returned /\ SampleCount >= settings.windowSize /\ settings.hopSize >= 1
    /\ (SampleCount - settings.windowSize) % settings.hopSize # 0
    /\ ~IsPowerOfTwo(settings.windowSize)
    /\ Len(result.spectrogram) >= 3
    /\ result.spectrogram[1] # result.spectrogram[2]
    /\ \E i \in DOMAIN result.spectrogram[1] : result.spectrogram[1][i] > 0

\* ------------------------------------------------------------ C14
StatisticsTaken == pc \in {"fundamental", "envelope"}
\* C14: for a magnitude spectrum of finite values >= 0 and a sample rate > 0,
\* spectralCentroid >= 0, spectralRolloff >= 0 and
\* spectralRolloff <= sampleRate / 2.
C14_StatisticsBounded ==
    (/\ StatisticsTaken
     /\ audioBuffer.sampleRate > 0
     /\ \A i \in DOMAIN magnitude : IsFinite(magnitude[i]) /\ magnitude[i] >= 0) =>
        /\ IsFinite(spectralCentroid) /\ spectralCentroid >= 0
        /\ IsFinite(spectralRolloff) /\ spectralRolloff >= 0
        /\ 2 * spectralRolloff <= audioBuffer.sampleRate * FreqScale
\* The same for the spectra of at least one bin.
C14_BoundedForBins ==
    Length(magnitude) >= 1 => C14_StatisticsBounded

\* ------------------------------------------------------------ C15
\* C15: a call of analyze() after the first, on the same processor or on one
\* constructed anew from the same buffer and settings, returns the result of
\* the call before it, field by field; no step changes the buffer or the
\* settings.
C15_SecondRunSameResult ==
    [][/\ audioBuffer' = audioBuffer
       /\ settings' = settings
       /\ (pc = "frames" /\ pc' = "done" /\ calls >= 1) => result' = result]_vars
\* A second call has returned, for a stereo signal with peaks, a harmonic
\* series and more than one spectrogram frame.
C15_Witness ==
    /\ Returned /\ calls = 2
    /\ audioBuffer.numberOfChannels = 2
    /\ result.spectralFeatures # << >>
    /\ result.harmonics # << >>
    /\ Len(result.spectrogram) >= 2
    /\ result.peakLevel > 0

\* ------------------------------------------------------------ C21
\* The distances j of 1 .. steps at which the bin j below bin i is inside the
\* spectrum and under 0.707 of the magnitude of bin i.
DropsBelow(i, steps) ==
    {j \in 1 .. steps : i - j >= 0 /\ magnitude[i - j] * 1000 < magnitude[i] * 707}
\* The bandwidth of a peak at bin i when the walk is taken over 1 .. steps.
BandwidthOver(i, steps) ==
    LET below == DropsBelow(i, steps)
        j == IF below = {} THEN 1 ELSE CHOOSE d \in below : \A e \in below : d <= e
    IN  BinToFrequency(j * OffsetScale, Length(magnitude), audioBuffer.sampleRate)
\* C21 as stated: the bandwidth of every reported peak at bin i is
\* j * freqResolution for the smallest j of 1 .. 20 with the magnitude j bins
\* from bin i below 0.707 of the peak's, and freqResolution if there is none.
C21_BandwidthWithinTwenty ==
    PeaksFound => \A p \in DOMAIN spectralFeatures :
        spectralFeatures[p].bandwidth = BandwidthOver(spectralFeatures[p].bin, BandwidthSteps)
\* C21 amended: the same for the smallest j of 1 .. 19, the bins taken below
\* bin i (towards bin 0) and inside the spectrum.
C21_BandwidthWithinNineteen ==
    PeaksFound => \A p \in DOMAIN spectralFeatures :
        spectralFeatures[p].bandwidth = BandwidthOver(spectralFeatures[p].bin, BandwidthSteps - 1)
\* A peak is reported whose first bin under 0.707 of it lies 20 bins below it.
C21_Witness ==
    /\ PeaksFound
    /\ \E p \in DOMAIN spectralFeatures :
          /\ DropsBelow(spectralFeatures[p].bin, BandwidthSteps) = {BandwidthSteps}
          /\ spectralFeatures[p].bandwidth =
                BinToFrequency(OffsetScale, Length(magnitude), audioBuffer.sampleRate)

\* ------------------------------------------------------------ C22
\* The squared magnitudes of bins 0 .. i, summed.
EnergyUpTo(i) == SumSeq([k \in DOMAIN magnitude |-> magnitude[k] * magnitude[k]], 0, i)
\* The bins at which the cumulative energy is at least 85% of the total.
RolloffReached ==
    {i \in DOMAIN magnitude :
       EnergyUpTo(i) * RolloffDen >= EnergyUpTo(Length(magnitude) - 1) * RolloffNum}
\* C22: for a spectrum of finite values some bin reaches 85% of the total
\* squared magnitude (the return after the loop is not taken), and
\* spectralRolloff is i * freqResolution for the smallest such bin i, which is
\* bin 0 for an all-zero spectrum.
C22_RolloffAtEnergyBin ==
    (StatisticsTaken /\ \A k \in DOMAIN magnitude : IsFinite(magnitude[k])) =>
        /\ RolloffReached # {}
        /\ \A i \in RolloffReached :
              (\A k \in RolloffReached : i <= k) =>
                  spectralRolloff = BinToFrequency(i * OffsetScale, Length(magnitude),
                                                   audioBuffer.sampleRate)
\* The same for the spectra of at least one bin.
C22_RolloffForBins ==
    Length(magnitude) >= 1 => C22_RolloffAtEnergyBin

\* ------------------------------------------------------------ C23
\* The reversal of the low bits of i, for as many bits as n has below its top one.
RECURSIVE ReversedBits(_, _, _)
ReversedBits(i, n, acc) ==
    IF n <= 1 THEN acc ELSE ReversedBits(i \div 2, n \div 2, 2 * acc + (i % 2))
BitReversed(i, n) == ReversedBits(i, n, 0)
\* The bit-reversal loop of the followed call has ended and no stage has run.
Reversed == transform.phase = "stages" /\ transform.len = 2
\* C23: for a length N that is a power of two, after the bit-reversal loop
\* position i holds the input sample of index the log2(N)-bit reversal of i,
\* every index is the reversal of exactly one position, the imaginary part is
\* 0, and the arrays returned have length N.
C23_BitReversalPermutation ==
    LET N == Length(transform.signal)
    IN  IsPowerOfTwo(N) =>
          /\ Reversed =>
                /\ \A i \in 0 .. N - 1 :
                      /\ transform.real[i] = transform.signal[BitReversed(i, N)]
                      /\ transform.imag[i] = 0
                /\ \A k \in 0 .. N - 1 :
                      Cardinality({i \in 0 .. N - 1 : BitReversed(i, N) = k}) = 1
                /\ \A k \in 0 .. N - 1 :
                      Cardinality({i \in 0 .. N - 1 : transform.real[i] = transform.signal[k]}) = 1
          /\ transform.phase = "returned" =>
                /\ DOMAIN transform.real = 0 .. N - 1
                /\ DOMAIN transform.imag = 0 .. N - 1
\* The loop has ended for a ramp of 16 samples, which it has reordered.
C23_Witness ==
    /\ Reversed
    /\ Length(transform.signal) = 16
    /\ transform.real[1] = transform.signal[8]
    /\ transform.real[3] = transform.signal[12]
\* The call followed step by step returns what fft(signal) is.
FftStepsAgree ==
    transform.phase = "returned" =>
        [real |-> transform.real, imag |-> transform.imag] = fft(transform.signal)

\* ------------------------------------------------------------ C24
\* 2a = y1 - 2 y2 + y3 and 2b = y3 - y1 at bin i; the offset is -2b / (2 * 2a).
TwiceA(i) == magnitude[i - 1] - 2 * magnitude[i] + magnitude[i + 1]
TwiceB(i) == magnitude[i + 1] - magnitude[i - 1]
\* C24: for every reported peak, a < 0, |-b / (2a)| < 1/2 (the clamp to
\* [-1, 1] leaves the offset as it is), and the reported frequency is that of
\* a position within half a bin of the peak's bin.
C24_OffsetUnderHalfBin ==
    PeaksFound => \A p \in DOMAIN spectralFeatures :
        LET i == spectralFeatures[p].bin
            offset == PeakOffset(magnitude[i - 1], magnitude[i], magnitude[i + 1])
        IN  /\ TwiceA(i) < 0
            /\ Abs(TwiceB(i)) < -TwiceA(i)
            /\ offset = SignedDiv(-TwiceB(i) * OffsetScale, 2 * TwiceA(i))
            /\ 2 * Abs(offset) <= OffsetScale
            /\ spectralFeatures[p].frequency =
                  BinToFrequency(i * OffsetScale + offset, Length(magnitude),
                                 audioBuffer.sampleRate)
\* A peak is reported whose neighbours differ: its offset is not 0.
C24_Witness ==
    /\ PeaksFound
    /\ \E p \in DOMAIN spectralFeatures :
          /\ TwiceB(spectralFeatures[p].bin) > 0
          /\ spectralFeatures[p].frequency >
                BinToFrequency(spectralFeatures[p].bin * OffsetScale, Length(magnitude),
                               audioBuffer.sampleRate)

\* ------------------------------------------------------------ C25
\* The peaks that are members of a retained series.
RetainedPeaks == UNION {MemberSet(harmonics[s]) : s \in DOMAIN harmonics}
\* C25: a peak that was unavailable to the candidate of a retained series
\* (claimed before the series was started, and after the candidate in the
\* list) is a member of a retained series: no peak is withheld by a series
\* that was dropped.
C25_ClaimedOnlyByRetained ==
    pc = "statistics" =>
        \A s \in DOMAIN harmonics :
            \A j \in harmonics[s].claimedBefore :
                j > harmonics[s].members[1] => j \in RetainedPeaks

\* ------------------------------------------------------------ C26
Grouped == pc \in {"statistics", "fundamental", "envelope"}
\* C26: in every retained series overtones[0] is the candidate peak the
\* series was started from, fundamental is its frequency, and no member has a
\* magnitude greater than its magnitude.
C26_FundamentalLeadsSeries ==
    Grouped => \A s \in DOMAIN harmonics :
        LET series == harmonics[s]
            candidate == spectralFeatures[series.members[1]]
        IN  /\ series.overtones[1] = candidate
            /\ series.fundamental = series.overtones[1].frequency
            /\ \A k \in DOMAIN series.overtones :
                  /\ series.overtones[k] = spectralFeatures[series.members[k]]
                  /\ series.overtones[k].magnitude <= series.overtones[1].magnitude
\* A series is retained whose candidate was not the strongest peak and stands
\* at a higher bin than another reported peak.
C26_Witness ==
    /\ Grouped
    /\ \E s \in DOMAIN harmonics :
          /\ harmonics[s].members[1] > 1
          /\ \E p \in DOMAIN spectralFeatures :
                spectralFeatures[p].bin < harmonics[s].overtones[1].bin
          /\ harmonics[s].overtones[2].magnitude < harmonics[s].overtones[1].magnitude

\* ------------------------------------------------------------ C27
\* C27: when analyze() returns for an input of at least one sample, the
\* spectrogram has at least one frame (spectrogram[0] is defined).
C27_SpectrogramHasFrame ==
    (Returned /\ SampleCount >= 1) => Len(result.spectrogram) >= 1

\* ------------------------------------------------------------ C28
UploadsInFlight == {k \in 1 .. MaxUploads : ui.upload[k] \in {"reading", "decoding"}}
\* C28: whenever no upload is in flight, the audioBuffer and the
\* analysisResult shown are those of the audioFile shown (or are not set).
C28_ShownFromOneFile ==
    UploadsInFlight = {} =>
        /\ ui.audioBuffer \in {0, ui.audioFile}
        /\ ui.analysisResult \in {0, ui.audioFile}

\* ------------------------------------------------------------ C29
\* C29: isAnalyzing is true while an accepted upload is being read, decoded
\* or analyzed, and false when every started upload has finished.
C29_AnalyzingWhileInFlight ==
    ui.isAnalyzing <=> UploadsInFlight # {}

\* ------------------------------------------------------------ C30
SourcesPlaying == {n \in 1 .. MaxSources : ui.source[n] = "playing"}
\* C30: isPlaying is true when the source node started last still plays,
\* only the source node started last plays or has its end pending when
\* isPlaying is true, and at most one source node plays at a time.
C30_PlayingIsLastSource ==
    /\ (ui.sourceNodeRef # 0 /\ ui.source[ui.sourceNodeRef] = "playing") => ui.isPlaying
    /\ ui.isPlaying =>
          (ui.sourceNodeRef # 0 /\ ui.source[ui.sourceNodeRef] \in {"playing", "finished"})
    /\ Cardinality(SourcesPlaying) <= 1

====
